---- MODULE Spec2Model ----
(***************************************************************************)
(* The sales-analytics workflow of main.py / nodes.py / state.py:          *)
(* a StateGraph over AppState with the nodes orchestrator, agent1, agent2, *)
(* agent3 and synthesizer, driven one turn at a time by the chat handler   *)
(* main().  The shared state is a mapping from field name to value whose   *)
(* DOMAIN is the set of fields that are present; a node returns a delta    *)
(* (again a mapping) that the executor merges field by field.              *)
(***************************************************************************)
EXTENDS Integers, Sequences, FiniteSets, TLC

VARIABLES
    pc,       \* position of the in-flight turn: the node to run next, or idle / done / aborted
    st,       \* the graph state (channel values) of the in-flight turn
    prev,     \* the graph state before the merge of the node that ran last
    ev,       \* what the node that ran last was given by its collaborators
    ran,      \* the nodes executed so far in this turn, in order
    fetched,  \* the rows the data fetch of this turn returned
    turn,     \* number of turns started in this session
    session,  \* cl.user_session: a mapping with the keys that have been set
    history,  \* main()'s local list `history` of the in-flight turn
    carried,  \* the filter in effect when the last completed turn ended
    lists,    \* overlapping calls of main(): the list objects, by object number
    calls     \* overlapping calls of main(): each call's position and its `history` object

vars == <<pc, st, prev, ev, ran, fetched, turn, session, history, carried, lists, calls>>

(***************************************************************************)
(* Bounds of the model.                                                    *)
(***************************************************************************)
MaxTurns == 2
MaxDeals == 2

(***************************************************************************)
(* Mapping helpers: dict.get with a default.                               *)
(***************************************************************************)
Get(s, k, default) == IF k \in DOMAIN s THEN s[k] ELSE default

NoKeys == [k \in {} |-> 0]

Set(s, k, v) == [x \in DOMAIN s \cup {k} |-> IF x = k THEN v ELSE s[x]]

(***************************************************************************)
(* state.py: the fields declared with the `add` reducer are concatenated   *)
(* on every write, final_response is a Topic that collects its writes,     *)
(* every other field keeps the last value written.                         *)
(***************************************************************************)
AddFields == {"retrieved_deals", "explanations", "news", "errors"}

TopicFields == {"final_response"}

MergeField(s, d, k) ==
    IF k \notin DOMAIN d THEN s[k]
    ELSE IF k \in AddFields THEN Get(s, k, <<>>) \o d[k]
    ELSE IF k \in TopicFields THEN Append(Get(s, k, <<>>), d[k])
    ELSE d[k]

\* AppState with the node's return value taken as the whole new state.
ReplaceState(s, d) == d

AppState(s, d) == [k \in DOMAIN s \cup DOMAIN d |-> MergeField(s, d, k)]

\* The channels as the executor creates them for a turn's input: the `add`
\* channels start as empty lists, the input's fields are written over them.
InputChannels(input) ==
    [k \in AddFields \cup DOMAIN input |-> IF k \in DOMAIN input THEN input[k] ELSE <<>>]

(***************************************************************************)
(* The fixed stage ids and the planner's possible responses.               *)
(***************************************************************************)
StageIds == {"1", "2", "3"}

UnknownId == "9"

\* The filters value of a parsed response: absent or empty, whitespace only, an
\* expression.
Filters == {"", " ", "region = X"}

\* The agents array of a parsed response, as the set of its elements.
\* An element of the agents array that is itself a list, as in [["1"]]: the
\* membership test of line 65 cannot hash it and raises.
Unhashable == "[1]"

AgentLists == SUBSET StageIds \cup {{"1", UnknownId}} \cup {{Unhashable}}

PlannerResponses ==
    {[kind |-> "llm_error"], [kind |-> "garbage"], [kind |-> "nondict"]}
    \cup {[kind |-> "object", filters |-> f, agents |-> a] :
            f \in Filters, a \in AgentLists}

UserEntry(q) == [role |-> "user", content |-> q]

SystemEntry(f, a) == [role |-> "system", filters |-> f, agents |-> a]

(***************************************************************************)
(* A node's outcome: it raises, or it returns a delta.  `inplace` is the   *)
(* state as the node's in-place mutations of shared lists left it.         *)
(***************************************************************************)
Raised(s) == [raised |-> TRUE, delta |-> NoKeys, inplace |-> s]

Returned(s, d) == [raised |-> FALSE, delta |-> d, inplace |-> s]

(***************************************************************************)
(* orchestrator_node: parse the planner's response into the filter and the *)
(* agents to call.                                                         *)
(***************************************************************************)
\* json.loads and the two data.get calls (lines 60-62).
PlannerParsed(r) == r.kind = "object"

PlannerFilters(r) == IF PlannerParsed(r) THEN r.filters ELSE ""

PlannerAgents(r) ==
    IF PlannerParsed(r) /\ r.agents # {} THEN r.agents ELSE StageIds

\* The validation of lines 65-67.
ValidationRaises(r) == PlannerParsed(r) /\ Unhashable \in r.agents

InvalidAgents(r) ==
    /\ PlannerParsed(r) /\ ~ValidationRaises(r)
    /\ \E a \in PlannerAgents(r) : a \notin StageIds

\* PlannerErrors with an except branch that records nothing.
PlannerErrorsSilent(r) ==
    IF InvalidAgents(r) THEN <<[kind |-> "invalid_agent", agents |-> PlannerAgents(r)]>>
    ELSE <<>>

PlannerErrors(r) ==
    IF ~PlannerParsed(r) \/ ValidationRaises(r) THEN <<[kind |-> "planner_parse", raw |-> r.kind]>>
    ELSE IF InvalidAgents(r) THEN <<[kind |-> "invalid_agent", agents |-> PlannerAgents(r)]>>
    ELSE <<>>

\* The carry-over of lines 73-74.
CarryOver(s, f) ==
    IF f = "" /\ Get(s, "parsed_filters", "") # "" THEN s["parsed_filters"] ELSE f

orchestrator_node(s, r) ==
    IF r.kind = "llm_error" THEN Raised(s)
    ELSE
        LET parsed_filters == CarryOver(s, PlannerFilters(r))
            agents == IF InvalidAgents(r) THEN StageIds ELSE PlannerAgents(r)
            new_history == Get(s, "history", <<>>)
                             \o <<UserEntry(s["user_query"]), SystemEntry(parsed_filters, agents)>>
        IN Returned(s, [parsed_filters |-> parsed_filters,
                        agents_to_call |-> agents,
                        errors |-> Get(s, "errors", <<>>) \o PlannerErrors(r),
                        history |-> new_history])

(***************************************************************************)
(* main.py: the conditional edges.                                         *)
(***************************************************************************)
Selected(s, id) == id \in Get(s, "agents_to_call", {})

AfterOrchestrator(s) == IF Selected(s, "1") THEN "agent1" ELSE "synthesizer"

\* An edge that goes on to the Augmentation stage past an Explanation stage that
\* is not selected.
AfterAgent1Skipping(s) ==
    IF Selected(s, "2") THEN "agent2"
    ELSE IF Selected(s, "3") THEN "agent3" ELSE "synthesizer"

AfterAgent1(s) == IF Selected(s, "2") THEN "agent2" ELSE "synthesizer"

AfterAgent2(s) == IF Selected(s, "3") THEN "agent3" ELSE "synthesizer"

(***************************************************************************)
(* The records the data fetch can return.  Strings are the literals the    *)
(* code handles; Strip and Lower are str.strip and str.lower on them.      *)
(***************************************************************************)
Deal(op, ind, cust) ==
    [opportunity_number |-> op, customer_industry |-> ind, customer_name |-> cust]

DealPool ==
    {Deal("OP1", "Mining", "Acme"), Deal("OP2", "Others", "Beta"), Deal("OP3", "", "Acme")}

SeqsUpTo(S, n) == UNION {[1..m -> S] : m \in 0..n}

DealSeqs == SeqsUpTo(DealPool, MaxDeals)

Strip(x) == IF x = " " THEN "" ELSE x

Lower(x) ==
    CASE x = "Mining" -> "mining"
      [] x = "Others" -> "others"
      [] x = "Others 2" -> "others 2"
      [] OTHER -> x

(***************************************************************************)
(* agent1_node: schema introspection, SQL generation with the fallback of  *)
(* lines 196-200, the data fetch of lines 206-213.                         *)
(***************************************************************************)
base_cols ==
    <<"opportunity_number", "win_probability", "predicted_outcome", "expected_value",
      "topic", "opportunity_type", "op_created_on", "customer_industry",
      "customer_name", "process_stages">>

Range(q) == {q[i] : i \in 1..Len(q)}

\* list(dict.fromkeys(base_cols + extra_cols)) keeps first occurrences, in order.
\* The elements of q at the positions in I, in q's order.
SelectIdx(q, I) ==
    LET F[i \in 0..Len(q)] ==
            IF i = 0 THEN <<>>
            ELSE IF i \in I THEN Append(F[i - 1], q[i]) ELSE F[i - 1]
    IN F[Len(q)]

Dedup(q) == SelectIdx(q, {i \in 1..Len(q) : \A j \in 1..(i - 1) : q[j] # q[i]})

\* The schema columns that the request text or the history mention.
ExtraCols == {<<>>, <<"owning_region">>}

\* The request of lines 197-200 when the generated text is no SELECT.
FallbackSql(s, extra_cols) ==
    [by |-> "fallback",
     cols |-> Dedup(base_cols \o extra_cols),
     table |-> "OPEN_DEALS_TABLE",
     has_where |-> Get(s, "parsed_filters", "") # "",
     where |-> Get(s, "parsed_filters", "")]

GeneratedSql == [by |-> "llm"]

\* What the node's collaborators answer; none is called when the node returns early.
NotCalled == [called |-> FALSE]

Agent1Envs(s) ==
    IF ~Selected(s, "1") THEN {NotCalled}
    ELSE
    {[schema |-> "fail"], [schema |-> "ok", sql |-> "llm_error"]}
    \cup {[schema |-> "ok", sql |-> "select", extra |-> <<>>, fetch |-> "fail", rows |-> <<>>,
             shared |-> b] : b \in BOOLEAN}
    \cup {[schema |-> "ok", sql |-> "select", extra |-> <<>>, fetch |-> "ok", rows |-> r] :
            r \in DealSeqs}
    \cup {[schema |-> "ok", sql |-> "other", extra |-> x, fetch |-> "fail", rows |-> <<>>,
             shared |-> b] : x \in ExtraCols, b \in BOOLEAN}
    \cup {[schema |-> "ok", sql |-> "other", extra |-> x, fetch |-> "ok", rows |-> r] :
            x \in ExtraCols, r \in DealSeqs}

agent1_node(s, e) ==
    IF ~Selected(s, "1") THEN Returned(s, NoKeys)
    ELSE IF e.schema = "fail" THEN Raised(s)
    ELSE IF e.sql = "llm_error" THEN Raised(s)
    ELSE
        LET sql_str == IF e.sql = "select" THEN GeneratedSql ELSE FallbackSql(s, e.extra)
            errors0 == Get(s, "errors", <<>>)
            errors == IF e.fetch = "fail"
                        THEN Append(errors0, [kind |-> "sql_failed", sql |-> sql_str])
                        ELSE errors0
            deals == IF e.fetch = "fail" THEN <<>> ELSE e.rows
            \* errors.append mutates the list object; when the executor handed the node
            \* the channel's own list (e.shared) the channel has the entry before the merge
            after == IF e.fetch = "fail" /\ e.shared /\ "errors" \in DOMAIN s
                       THEN Set(s, "errors", errors) ELSE s
        IN Returned(after, [sql_query |-> sql_str,
                            retrieved_deals |-> deals,
                            errors |-> errors])

(***************************************************************************)
(* agent2_node: one explanation entry per retrieved deal.                  *)
(***************************************************************************)
NoneValue == "None"

OpId(deal) == Strip(deal.opportunity_number)

Keys(deals) == {OpId(deals[i]) : i \in 1..Len(deals)}

\* A sentinel that does not say which record it stands for.
SentinelKeyless(deal) ==
    [opportunity_number |-> "", deal_id |-> NoneValue,
     explanation |-> "No SHAP data available for this deal."]

Sentinel(deal) ==
    [opportunity_number |-> OpId(deal), deal_id |-> NoneValue,
     explanation |-> "No SHAP data available for this deal."]

Explained(deal) ==
    [opportunity_number |-> OpId(deal), deal_id |-> NoneValue, explanation |-> "text"]

\* have: the join keys the SHAP table holds a row for; llm_fails: the first
\* deal (0: none) whose summarization request fails.
Agent2Envs(s) ==
    LET deals == Get(s, "retrieved_deals", <<>>)
    IN IF ~Selected(s, "2") \/ deals = <<>> THEN {NotCalled}
       ELSE
       {[schema |-> "fail"], [schema |-> "ok", fetch |-> "fail"]}
       \cup UNION {{[schema |-> "ok", fetch |-> "ok", have |-> h, llm_fails |-> i] :
                       i \in {0} \cup {j \in 1..Len(deals) : OpId(deals[j]) \in h}} :
                    h \in SUBSET Keys(deals)}

agent2_node(s, e) ==
    IF ~Selected(s, "2") THEN Returned(s, NoKeys)
    ELSE
        LET deals == Get(s, "retrieved_deals", <<>>)
        IN IF deals = <<>> THEN Returned(s, [explanations |-> <<>>])
           ELSE IF e.schema = "fail" THEN Raised(s)
           ELSE IF e.fetch = "fail" THEN Raised(s)
           ELSE IF e.llm_fails # 0 /\ OpId(deals[e.llm_fails]) \in e.have THEN Raised(s)
           ELSE Returned(s, [explanations |->
                    [i \in 1..Len(deals) |->
                        IF OpId(deals[i]) \in e.have THEN Explained(deals[i])
                        ELSE Sentinel(deals[i])]])

(***************************************************************************)
(* agent3_node: one news lookup per (industry, customer) pair.  The node   *)
(* returns the state it was given, with the news field set.                *)
(***************************************************************************)
Industry(deal) == Lower(Strip(deal.customer_industry))

Customer(deal) == Strip(deal.customer_name)

Placeholders == {"Others", "Others 2"}

\* The condition of line 345.
Paired(deal) ==
    Industry(deal) # "" /\ Customer(deal) # "" /\ Industry(deal) \notin Placeholders

PairedDeals(deals) == SelectIdx(deals, {i \in 1..Len(deals) : Paired(deals[i])})

\* The keys of industry_customers, in insertion order.
IndustrySeq(deals) ==
    LET p == PairedDeals(deals)
    IN Dedup([i \in 1..Len(p) |-> Industry(p[i])])

Customers(deals, ind) ==
    {Customer(d) : d \in {x \in Range(deals) : Paired(x) /\ Industry(x) = ind}}

Perms(S) == {q \in [1..Cardinality(S) -> S] : Range(q) = S}

\* list(set): the customers of an industry in some iteration order.
Orders(deals) ==
    LET inds == Range(IndustrySeq(deals))
    IN {o \in [inds -> UNION {Perms(Customers(deals, i)) : i \in inds}] :
            \A i \in inds : o[i] \in Perms(Customers(deals, i))}

PairSeq(deals, order) ==
    LET inds == IndustrySeq(deals)
        F[i \in 0..Len(inds)] ==
            IF i = 0 THEN <<>>
            ELSE F[i - 1] \o [j \in 1..Len(order[inds[i]]) |->
                                [industry |-> inds[i], customer |-> order[inds[i]][j]]]
    IN F[Len(inds)]

LookupOutcomes == {"reply", "no_reply", "error"}

\* A lookup whose failure leaves no mark on its entry.
NewsEntryUnmarked(pair, outcome) ==
    [industry |-> pair.industry, customer |-> pair.customer,
     query |-> <<pair.industry, pair.customer>>,
     snippets |-> IF outcome = "reply" THEN <<"reply">> ELSE <<"No recent news found.">>]

NewsEntry(pair, outcome) ==
    LET query == <<pair.industry, pair.customer>>
    IN IF outcome = "error"
         THEN [industry |-> pair.industry, customer |-> pair.customer, query |-> query,
               error |-> "News search failed", snippets |-> <<>>]
         ELSE [industry |-> pair.industry, customer |-> pair.customer, query |-> query,
               snippets |-> IF outcome = "reply" THEN <<"reply">>
                            ELSE <<"No recent news found.">>]

Agent3Envs(s) ==
    LET deals == Get(s, "retrieved_deals", <<>>)
    IN IF ~Selected(s, "3") \/ deals = <<>> THEN {NotCalled}
       ELSE
       {[client |-> "fail"]}
       \cup UNION {{[client |-> "ok", order |-> o, lookups |-> l] :
                       l \in [1..Len(PairSeq(deals, o)) -> LookupOutcomes]} :
                    o \in Orders(deals)}

\* An Augmentation stage that returns its state with the filter emptied.
agent3_node_clearing(s, e) ==
    IF ~Selected(s, "3") THEN Returned(s, s)
    ELSE Returned(s, Set(Set(s, "news", <<>>), "parsed_filters", ""))

agent3_node(s, e) ==
    IF ~Selected(s, "3") THEN Returned(s, s)
    ELSE
        LET deals == Get(s, "retrieved_deals", <<>>)
        IN IF deals = <<>> THEN Returned(s, Set(s, "news", <<>>))
           ELSE IF e.client = "fail"
                  THEN Returned(s, Set(s, "news", <<[error |-> "client"]>>))
           ELSE LET pairs == PairSeq(deals, e.order)
                    industry_news == [i \in 1..Len(pairs) |-> NewsEntry(pairs[i], e.lookups[i])]
                IN Returned(s, Set(s, "news", industry_news))

(***************************************************************************)
(* synthesizer_node: format the state and ask for the final narrative.     *)
(***************************************************************************)
SynthEnvs == {[llm |-> "ok"], [llm |-> "fail"]}

\* Lines 424-431 read item['industry'] of every news item.
NewsFormattable(s) ==
    LET news_list == Get(s, "news", <<>>)
    IN \A i \in 1..Len(news_list) : "industry" \in DOMAIN news_list[i]

synthesizer_node(s, e) ==
    IF ~NewsFormattable(s) THEN Raised(s)
    ELSE IF e.llm = "fail" THEN Raised(s)
    ELSE Returned(s, [final_response |-> "narrative"])

SynthesizerEnvs(s) == IF NewsFormattable(s) THEN SynthEnvs ELSE {NotCalled}

\* An edge from the Augmentation stage back to the Explanation stage.
AfterAgent3Back(s) == IF Selected(s, "2") THEN "agent2" ELSE "synthesizer"

AfterAgent3(s) == "synthesizer"

\* An edge from the Synthesizer to itself.
AfterSynthesizerAgain(s) ==
    IF Len(Get(s, "final_response", <<>>)) < 2 THEN "synthesizer" ELSE "done"

AfterSynthesizer(s) == "done"

(***************************************************************************)
(* The executor's step for one node: run it, merge what it returned, move  *)
(* along the edge; an exception leaves the graph and aborts the turn.      *)
(***************************************************************************)
Merged(out) == AppState(out.inplace, out.delta)

RunNode(name, out, next, e) ==
    /\ prev' = st
    /\ ev' = [node |-> name, env |-> e, raised |-> out.raised, wrote |-> DOMAIN out.delta]
    /\ ran' = Append(ran, name)
    /\ fetched' = IF name = "agent1" /\ "retrieved_deals" \in DOMAIN out.delta
                    THEN out.delta["retrieved_deals"] ELSE fetched
    /\ IF out.raised
         THEN /\ st' = out.inplace
              /\ pc' = "aborted"
         ELSE /\ st' = Merged(out)
              /\ pc' = next
    /\ UNCHANGED <<turn, session, history, carried, lists, calls>>

(***************************************************************************)
(* main.py: the chat handlers.                                             *)
(***************************************************************************)
Query(t) == <<"query", t>>

start_chat ==
    /\ "thread_id" \notin DOMAIN session
    /\ session' = Set(session, "thread_id", "uuid")
    /\ UNCHANGED <<pc, st, prev, ev, ran, fetched, turn, history, carried, lists, calls>>

\* main() up to the call of graph.ainvoke (lines 55-68).  The list taken
\* from the session is the stored object itself, so the append is visible in
\* the session at once; the default [] of a first turn is not stored.
main_begin ==
    /\ pc \in {"idle", "aborted"}
    /\ "thread_id" \in DOMAIN session
    /\ turn < MaxTurns
    /\ turn' = turn + 1
    /\ LET h == Append(Get(session, "history", <<>>), UserEntry(Query(turn')))
       IN /\ history' = h
          /\ session' = IF "history" \in DOMAIN session THEN Set(session, "history", h)
                        ELSE session
          /\ st' = InputChannels([user_query |-> Query(turn'), history |-> h])
    /\ prev' = st'
    /\ ev' = [node |-> "input"]
    /\ ran' = <<>>
    /\ fetched' = <<>>
    /\ pc' = "orchestrator"
    /\ UNCHANGED <<carried, lists, calls>>

\* main() after graph.ainvoke returned (lines 70-74).
main_end ==
    /\ pc = "done"
    /\ LET response == Get(st, "final_response", "No synthesized response was generated.")
           h == Append(history, [role |-> "assistant", content |-> response])
       IN /\ history' = h
          /\ session' = Set(session, "history", h)
    /\ pc' = "idle"
    /\ st' = NoKeys
    /\ prev' = NoKeys
    /\ ev' = [node |-> "none"]
    /\ ran' = <<>>
    /\ fetched' = <<>>
    /\ carried' = Get(st, "parsed_filters", "")
    /\ UNCHANGED <<turn, lists, calls>>

(***************************************************************************)
(* The nodes as steps of the executor.                                     *)
(***************************************************************************)
Orchestrator ==
    /\ pc = "orchestrator"
    /\ \E r \in PlannerResponses :
         LET out == orchestrator_node(st, r)
         IN RunNode("orchestrator", out, AfterOrchestrator(Merged(out)), r)

Agent1 ==
    /\ pc = "agent1"
    /\ \E e \in Agent1Envs(st) :
         LET out == agent1_node(st, e)
         IN RunNode("agent1", out, AfterAgent1(Merged(out)), e)

Agent2 ==
    /\ pc = "agent2"
    /\ \E e \in Agent2Envs(st) :
         LET out == agent2_node(st, e)
         IN RunNode("agent2", out, AfterAgent2(Merged(out)), e)

Agent3 ==
    /\ pc = "agent3"
    /\ \E e \in Agent3Envs(st) :
         LET out == agent3_node(st, e)
         IN RunNode("agent3", out, AfterAgent3(Merged(out)), e)

Synthesizer ==
    /\ pc = "synthesizer"
    /\ \E e \in SynthesizerEnvs(st) :
         LET out == synthesizer_node(st, e)
         IN RunNode("synthesizer", out, AfterSynthesizer(Merged(out)), e)

Init ==
    /\ pc = "idle"
    /\ st = NoKeys
    /\ prev = NoKeys
    /\ ev = [node |-> "none"]
    /\ ran = <<>>
    /\ fetched = <<>>
    /\ turn = 0
    /\ session = NoKeys
    /\ history = <<>>
    /\ carried = ""
    /\ lists = <<>>
    /\ calls = <<>>

Next ==
    \/ start_chat
    \/ main_begin
    \/ Orchestrator
    \/ Agent1
    \/ Agent2
    \/ Agent3
    \/ Synthesizer
    \/ main_end

Spec == Init /\ [][Next]_vars

(***************************************************************************)
(* The conditional nodes called directly, as functions of a state: the     *)
(* state the planner left, holding some retrieved deals, is handed to a    *)
(* node and what the node returns is merged into it.                       *)
(***************************************************************************)
MaxCalls == 2

NodeInputs ==
    LET s0 == InputChannels([user_query |-> Query(1), history |-> <<UserEntry(Query(1))>>])
    IN {AppState(AppState(s0, orchestrator_node(s0, r).delta), [retrieved_deals |-> d]) :
          r \in {x \in PlannerResponses : x.kind # "llm_error"}, d \in DealSeqs}

InitNode ==
    /\ pc = "node"
    /\ st \in NodeInputs
    /\ prev = st
    /\ ev = [node |-> "input"]
    /\ ran = <<>>
    /\ fetched = <<>>
    /\ turn = 0
    /\ session = NoKeys
    /\ history = <<>>
    /\ carried = ""
    /\ lists = <<>>
    /\ calls = <<>>

CallAgent1 ==
    /\ pc = "node" /\ Len(ran) < MaxCalls
    /\ \E e \in Agent1Envs(st) :
         RunNode("agent1", agent1_node(st, e), "node", e)

CallAgent2 ==
    /\ pc = "node" /\ Len(ran) < MaxCalls
    /\ \E e \in Agent2Envs(st) :
         RunNode("agent2", agent2_node(st, e), "node", e)

CallAgent3 ==
    /\ pc = "node" /\ Len(ran) < MaxCalls
    /\ \E e \in Agent3Envs(st) :
         RunNode("agent3", agent3_node(st, e), "node", e)

NextNode ==
    \/ CallAgent1
    \/ CallAgent2
    \/ CallAgent3

SpecNode == InitNode /\ [][NextNode]_vars

(***************************************************************************)
(* The Planner called on its own, on an incoming state that may hold a     *)
(* filter of an earlier turn, and again on the state its merge produced.   *)
(***************************************************************************)
PlannerInputs ==
    LET input == [user_query |-> Query(1), history |-> <<UserEntry(Query(1))>>]
    IN {InputChannels(input)}
       \cup {InputChannels(Set(input, "parsed_filters", f)) : f \in Filters}

InitPlanner ==
    /\ pc = "planner"
    /\ st \in PlannerInputs
    /\ prev = st
    /\ ev = [node |-> "input"]
    /\ ran = <<>>
    /\ fetched = <<>>
    /\ turn = 0
    /\ session = NoKeys
    /\ history = <<>>
    /\ carried = ""
    /\ lists = <<>>
    /\ calls = <<>>

CallPlanner ==
    /\ pc = "planner" /\ Len(ran) < MaxCalls
    /\ \E r \in PlannerResponses :
         RunNode("orchestrator", orchestrator_node(st, r), "planner", r)

NextPlanner == CallPlanner

SpecPlanner == InitPlanner /\ [][NextPlanner]_vars

(***************************************************************************)
(* Calls of main() that overlap.  main() is a coroutine: it runs without   *)
(* interruption from line 55 to the await of line 65 and again from line   *)
(* 70 to its end, and other calls of the same session may run while it     *)
(* awaits graph.ainvoke.  Lists are objects: `lists` holds their contents, *)
(* a call's `history` and the session's "history" key hold object numbers. *)
(***************************************************************************)
MaxHandlers == 4

\* Lines 55-65: get the stored list or a new one, append the user entry.
MainEnter ==
    /\ "thread_id" \in DOMAIN session
    /\ Len(calls) < MaxHandlers
    /\ LET c == Len(calls) + 1
           stored == "history" \in DOMAIN session
           o == IF stored THEN session["history"] ELSE Len(lists) + 1
       IN /\ lists' = IF stored
                        THEN [lists EXCEPT ![o] = Append(@, UserEntry(Query(c)))]
                        ELSE Append(lists, <<UserEntry(Query(c))>>)
          /\ calls' = Append(calls, [at |-> "awaiting", history |-> o])
    /\ UNCHANGED <<pc, st, prev, ev, ran, fetched, turn, session, history, carried>>

\* Lines 68-74 when graph.ainvoke returns: append the reply, store the list.
MainReturn ==
    \E c \in 1..Len(calls) :
        /\ calls[c].at = "awaiting"
        /\ LET o == calls[c].history
           IN /\ lists' = [lists EXCEPT
                             ![o] = Append(@, [role |-> "assistant", content |-> <<"narrative">>])]
              /\ session' = Set(session, "history", o)
        /\ calls' = [calls EXCEPT ![c].at = "returned"]
        /\ UNCHANGED <<pc, st, prev, ev, ran, fetched, turn, history, carried>>

\* Line 68 when graph.ainvoke raises: the call ends there.
MainRaise ==
    \E c \in 1..Len(calls) :
        /\ calls[c].at = "awaiting"
        /\ calls' = [calls EXCEPT ![c].at = "aborted"]
        /\ UNCHANGED <<pc, st, prev, ev, ran, fetched, turn, session, history, carried, lists>>

InitOverlap == Init

NextOverlap ==
    \/ start_chat
    \/ MainEnter
    \/ MainReturn
    \/ MainRaise

SpecOverlap == InitOverlap /\ [][NextOverlap]_vars

(***************************************************************************)
(* Properties.                                                             *)
(***************************************************************************)
StageNode(id) == CASE id = "1" -> "agent1" [] id = "2" -> "agent2" [] id = "3" -> "agent3"

ConditionalNodes == {StageNode(id) : id \in StageIds}

StageOf(node) == CHOOSE id \in StageIds : StageNode(id) = node

IsPrefix(a, b) == Len(a) <= Len(b) /\ SubSeq(b, 1, Len(a)) = a

\* C1: in a turn that completes, every stage of the selected stage set has
\* executed, whether or not the stages positioned before it were selected.
C1_EverySelectedStageRuns ==
    pc = "done" => \A id \in StageIds : Selected(st, id) => StageNode(id) \in Range(ran)

\* C2: a conditional stage called while its id is not in the selected stage
\* set leaves retrieved records, explanation entries, augmentation entries and
\* accumulated errors as they were before the call, on a first call and on a
\* second call alike.
C2_SkippedStageNoOp ==
    (ev.node \in ConditionalNodes /\ ~Selected(prev, StageOf(ev.node)))
        => \A k \in AddFields : st[k] = prev[k]

\* C3: the merge of the Augmentation stage's delta leaves retrieved records,
\* explanation entries and accumulated errors unchanged, and with zero retrieved
\* records the delta is empty.
C3_AugmentationOnlyNews ==
    (ev.node = "agent3" /\ ~ev.raised)
        => /\ st["retrieved_deals"] = prev["retrieved_deals"]
           /\ st["explanations"] = prev["explanations"]
           /\ st["errors"] = prev["errors"]
           /\ (prev["retrieved_deals"] = <<>> => ev.wrote = {})

\* C4: after the Planner's merge of a response that is not parseable structured
\* data, the selected stage set is the full set, the filter expression is the
\* empty string and accumulated errors has grown by exactly one entry.
C4_PlannerFailOpen ==
    (ev.node = "orchestrator" /\ ~ev.raised /\ ~PlannerParsed(ev.env))
        => /\ st["agents_to_call"] = StageIds
           /\ st["parsed_filters"] = ""
           /\ Len(st["errors"]) = Len(prev["errors"]) + 1

C4_Witness ==
    /\ ev.node = "orchestrator" /\ ~ev.raised /\ ev.env.kind = "garbage"
    /\ pc = "agent1" /\ Len(st["errors"]) = 1

\* C5: after the Planner's merge of a parsed payload that holds a stage id
\* outside {1,2,3}, an error is recorded, all three stages are selected and the
\* filter expression is empty.
C5_UnknownIdFallsBack ==
    (ev.node = "orchestrator" /\ ~ev.raised /\ InvalidAgents(ev.env))
        => /\ Len(st["errors"]) = Len(prev["errors"]) + 1
           /\ st["agents_to_call"] = StageIds
           /\ st["parsed_filters"] = ""

\* C6: when a turn with Explanation selected completes, the state holds exactly
\* one explanation entry per record the turn retrieved, entry i keyed by the
\* join key of record i, and the field is present even for zero records.
C6_ExplanationCardinality ==
    (pc = "done" /\ Selected(st, "2"))
        => /\ "explanations" \in DOMAIN st
           /\ Len(st["explanations"]) = Len(fetched)
           /\ \A i \in 1..Len(fetched) :
                st["explanations"][i].opportunity_number = OpId(fetched[i])

\* C7: for every merge, each accumulating field's value before the merge is a
\* prefix of its value after the merge.
C7_AccumulatingPrefix ==
    \A k \in AddFields : IsPrefix(Get(prev, k, <<>>), Get(st, k, <<>>))

C7_Witness ==
    /\ ev.node = "agent1" /\ ~ev.raised /\ ev.env.fetch = "fail"
    /\ prev["errors"] # <<>>
    /\ Len(st["errors"]) > Len(prev["errors"])

\* The errors the stage that ran last newly produced in this execution.
NewErrors ==
    IF ev.node = "orchestrator" THEN PlannerErrors(ev.env)
    ELSE IF ev.env.fetch = "fail" THEN <<[kind |-> "sql_failed", sql |-> st["sql_query"]]>>
    ELSE <<>>

\* C8: after the Planner's merge and after the Retrieval's merge, accumulated
\* errors is its value before the stage followed by exactly the errors the stage
\* newly produced.
C8_ErrorsAppendedOnce ==
    (ev.node \in {"orchestrator", "agent1"} /\ ~ev.raised)
        => st["errors"] = prev["errors"] \o NewErrors

\* The schema introspection call or the data fetch of the Retrieval stage failed.
RetrievalFetchFailed ==
    /\ ev.node = "agent1"
    /\ "schema" \in DOMAIN ev.env
    /\ \/ ev.env.schema = "fail"
       \/ ev.env.schema = "ok" /\ ev.env.sql # "llm_error" /\ ev.env.fetch = "fail"

\* C9: a fetch failure inside the Retrieval stage is caught: an entry is added
\* to accumulated errors, no record is retrieved and the turn goes on.
C9_RetrievalFailureCaught ==
    RetrievalFetchFailed
        => /\ pc # "aborted"
           /\ Len(st["errors"]) > Len(prev["errors"])
           /\ st["retrieved_deals"] = <<>>

\* C10: a failure of the companion-data batch fetch of the Explanation stage is
\* caught: an entry is added to accumulated errors and the turn goes on.
C10_CompanionFailureCaught ==
    (ev.node = "agent2" /\ "schema" \in DOMAIN ev.env
        /\ ev.env.schema = "ok" /\ ev.env.fetch = "fail")
        => /\ pc # "aborted"
           /\ Len(st["errors"]) > Len(prev["errors"])

\* The positions of the news entries that carry an error mark.
ErrorMarked(news_list) == {i \in 1..Len(news_list) : "error" \in DOMAIN news_list[i]}

\* The Augmentation stage ran its lookups and exactly one of them failed.
OneLookupFailed ==
    /\ ev.node = "agent3" /\ "lookups" \in DOMAIN ev.env
    /\ Cardinality({i \in DOMAIN ev.env.lookups : ev.env.lookups[i] = "error"}) = 1

ClientFailureRecorded(s) ==
    \E i \in 1..Len(Get(s, "news", <<>>)) : s["news"][i] = [error |-> "client"]

\* C12: when the news collaborator's client cannot be obtained, the failure is
\* recorded in the state, the turn goes on to the Synthesizer, and the
\* Synthesizer completes with a final narrative.
C12_ClientUnavailableSurvived ==
    /\ (ev.node = "agent3" /\ ev.env = [client |-> "fail"])
         => pc = "synthesizer" /\ ClientFailureRecorded(st)
    /\ (ev.node = "synthesizer" /\ ClientFailureRecorded(prev))
         => pc = "done" /\ Get(st, "final_response", <<>>) # <<>>

\* The stage that ran last caught a failure of one of its collaborators: an
\* unparseable planner response, a failed data fetch, an unobtainable news
\* client, a failed news lookup.
CaughtFailure ==
    /\ ev.node \in {"orchestrator", "agent1", "agent3"}
    /\ ~ev.raised
    /\ \/ ev.node = "orchestrator" /\ ~PlannerParsed(ev.env)
       \/ ev.node = "agent1" /\ "fetch" \in DOMAIN ev.env /\ ev.env.fetch = "fail"
       \/ ev.node = "agent3" /\ ev.env = [client |-> "fail"]
       \/ ev.node = "agent3" /\ "lookups" \in DOMAIN ev.env
            /\ \E i \in DOMAIN ev.env.lookups : ev.env.lookups[i] = "error"

\* C13: every collaborator failure a stage catches puts at least one diagnostic
\* entry of its own into accumulated errors (which only grows, so the entry is
\* in the state the Synthesizer receives).
C13_CaughtFailureInErrors ==
    CaughtFailure => Range(st["errors"]) \ Range(prev["errors"]) # {}

\* The summarization request of one retrieved record failed in the Explanation
\* stage.
SummarizationFailed ==
    /\ ev.node = "agent2" /\ "llm_fails" \in DOMAIN ev.env
    /\ ev.env.llm_fails # 0

\* C14: when the summarization of one retrieved record fails, the Explanation
\* stage still returns one entry per record, and every other record's entry is
\* the one it gets when no summarization fails.
C14_SummarizationFaultIsolated ==
    SummarizationFailed
        => /\ ~ev.raised
           /\ Len(st["explanations"]) = Len(prev["explanations"]) + Len(prev["retrieved_deals"])
           /\ \A i \in 1..Len(prev["retrieved_deals"]) :
                i # ev.env.llm_fails
                  => st["explanations"][Len(prev["explanations"]) + i]
                       = IF OpId(prev["retrieved_deals"][i]) \in ev.env.have
                           THEN Explained(prev["retrieved_deals"][i])
                           ELSE Sentinel(prev["retrieved_deals"][i])

\* The positions of the sentinel entries among explanation entries.
SentinelIdx(explanations) ==
    {i \in 1..Len(explanations) :
        explanations[i].explanation = "No SHAP data available for this deal."}

\* C15: for every retrieved record without a companion record, the Explanation
\* stage emits at the record's position one sentinel entry carrying the record's
\* join key, the stage adds nothing to accumulated errors and the turn goes on;
\* the Synthesizer, its own request answered, then ends the turn with a
\* non-empty final narrative.
C15_SentinelPerMissingCompanion ==
    /\ (ev.node = "agent2" /\ "have" \in DOMAIN ev.env /\ ~ev.raised)
         => LET deals == prev["retrieved_deals"]
                base == Len(prev["explanations"])
            IN /\ Len(st["explanations"]) = base + Len(deals)
               /\ \A i \in 1..Len(deals) :
                    OpId(deals[i]) \notin ev.env.have
                      => /\ base + i \in SentinelIdx(st["explanations"])
                         /\ st["explanations"][base + i].opportunity_number = OpId(deals[i])
               /\ st["errors"] = prev["errors"]
               /\ pc \in {"agent3", "synthesizer"}
    /\ (ev.node = "synthesizer" /\ SentinelIdx(prev["explanations"]) # {}
          /\ NewsFormattable(prev) /\ ev.env = [llm |-> "ok"])
         => pc = "done" /\ st["final_response"] # <<>>

C15_Witness ==
    /\ pc = "done" /\ ran = <<"orchestrator", "agent1", "agent2", "synthesizer">>
    /\ fetched = <<Deal("OP1", "Mining", "Acme")>>
    /\ st["explanations"] = <<Sentinel(fetched[1])>>
    /\ st["errors"] = <<>>
    /\ st["final_response"] # <<>>

\* A filter that is empty or whitespace only.
Blank(f) == Strip(f) = ""

\* C16: after the Planner's merge, when the parsed filter is empty or blank and
\* the incoming state held a non-empty filter F the emitted filter is F, and
\* when the parsed filter is non-blank the emitted filter is the parsed one.
C16_BlankFilterCarriesOver ==
    (ev.node = "orchestrator" /\ ~ev.raised)
        => LET parsed == PlannerFilters(ev.env)
               F == Get(prev, "parsed_filters", "")
           IN /\ (Blank(parsed) /\ F # "") => st["parsed_filters"] = F
              /\ ~Blank(parsed) => st["parsed_filters"] = parsed

\* C17: in a turn that follows a completed turn of the same session whose filter
\* in effect at its end was F, non-blank, a Planner that parses a blank filter
\* emits F: the caller has stored F and supplied it with the turn's input.
C17_FilterCarriedAcrossTurns ==
    (ev.node = "orchestrator" /\ ~ev.raised /\ ~Blank(carried)
        /\ PlannerParsed(ev.env) /\ Blank(PlannerFilters(ev.env)))
        => /\ Get(prev, "parsed_filters", "") = carried
           /\ st["parsed_filters"] = carried

\* The position of a node in the fixed order of the workflow.
Position(node) ==
    CASE node = "orchestrator" -> 0
      [] node = "agent1" -> 1
      [] node = "agent2" -> 2
      [] node = "agent3" -> 3
      [] node = "synthesizer" -> 4

\* The fields first written by the stages positioned after a node.
LaterFields(node) ==
    CASE node = "orchestrator" ->
           {"parsed_filters", "agents_to_call", "sql_query", "final_response"}
      [] node = "agent1" -> {"sql_query", "final_response"}
      [] node \in {"agent2", "agent3", "synthesizer"} -> {"final_response"}

LaterLists(node) ==
    CASE node = "orchestrator" -> {"retrieved_deals", "explanations", "news"}
      [] node = "agent1" -> {"retrieved_deals", "explanations", "news"}
      [] node = "agent2" -> {"explanations", "news"}
      [] node = "agent3" -> {"news"}
      [] node = "synthesizer" -> {}

\* C18: in every turn the nodes execute in strictly increasing position (each at
\* most once, in the fixed order), the Planner first, the Synthesizer last when
\* the turn completes, and the state a node is given holds no write of a node
\* positioned at or after it.
C18_FixedStageOrder ==
    /\ \A i, j \in 1..Len(ran) : i < j => Position(ran[i]) < Position(ran[j])
    /\ ran # <<>> => ran[1] = "orchestrator"
    /\ pc = "done" => ran[Len(ran)] = "synthesizer"
    /\ pc \in {"agent1", "agent2", "agent3", "synthesizer"} => ran # <<>>
    /\ ran # <<>>
         => /\ ev.node = ran[Len(ran)]
            /\ DOMAIN prev \cap LaterFields(ev.node) = {}
            /\ \A k \in LaterLists(ev.node) : prev[k] = <<>>

C18_Witness ==
    /\ pc = "done"
    /\ ran = <<"orchestrator", "agent1", "agent2", "agent3", "synthesizer">>
    /\ st["news"] # <<>>

NodeNames == {"orchestrator", "agent1", "agent2", "agent3", "synthesizer"}

\* A collaborator call made with this environment failed.
EnvFailed(e) ==
    \/ "kind" \in DOMAIN e /\ e.kind = "llm_error"
    \/ "schema" \in DOMAIN e /\ e.schema = "fail"
    \/ "sql" \in DOMAIN e /\ e.sql = "llm_error"
    \/ "fetch" \in DOMAIN e /\ e.fetch = "fail"
    \/ "llm_fails" \in DOMAIN e /\ e.llm_fails # 0
    \/ "client" \in DOMAIN e /\ e.client = "fail"
    \/ "lookups" \in DOMAIN e /\ \E i \in DOMAIN e.lookups : e.lookups[i] = "error"
    \/ "llm" \in DOMAIN e /\ e.llm = "fail"

\* The node to run next has an execution in which no collaborator call fails,
\* and that execution returns.
CanSucceed ==
    CASE pc = "orchestrator" ->
           \E r \in PlannerResponses : ~EnvFailed(r) /\ ~orchestrator_node(st, r).raised
      [] pc = "agent1" ->
           \E e \in Agent1Envs(st) : ~EnvFailed(e) /\ ~agent1_node(st, e).raised
      [] pc = "agent2" ->
           \E e \in Agent2Envs(st) : ~EnvFailed(e) /\ ~agent2_node(st, e).raised
      [] pc = "agent3" ->
           \E e \in Agent3Envs(st) : ~EnvFailed(e) /\ ~agent3_node(st, e).raised
      [] pc = "synthesizer" ->
           ClientFailureRecorded(st)
             \/ \E e \in SynthesizerEnvs(st) : ~EnvFailed(e) /\ ~synthesizer_node(st, e).raised

Count(q, x) == Cardinality({i \in 1..Len(q) : q[i] = x})

\* C19: whatever stage set is selected, a turn in which no collaborator call
\* fails ends after at most five node executions with the Synthesizer executed
\* exactly once and the final narrative written exactly once, by the
\* Synthesizer: a turn aborts only after a failed call, a node that is due can
\* always complete, the Synthesizer never runs twice and nothing but the
\* Synthesizer's single merge writes the final narrative.
C19_TurnEndsAtSynthesizer ==
    /\ pc = "aborted" => EnvFailed(ev.env) \/ ClientFailureRecorded(prev)
    /\ pc \in NodeNames => CanSucceed /\ Len(ran) <= Position(pc)
    /\ Count(ran, "synthesizer") <= 1
    /\ Len(Get(st, "final_response", <<>>)) <= 1
    /\ "final_response" \in DOMAIN st => ev.node = "synthesizer" /\ pc = "done"
    /\ pc = "done" => /\ ran[Len(ran)] = "synthesizer"
                      /\ Count(ran, "synthesizer") = 1
                      /\ st["final_response"] = <<"narrative">>

C19_Witness ==
    /\ pc = "done"
    /\ st["agents_to_call"] = {"1"}
    /\ ran = <<"orchestrator", "agent1", "synthesizer">>
    /\ st["errors"] = <<>>
    /\ st["final_response"] = <<"narrative">>

PlannerFields == {"parsed_filters", "agents_to_call"}

\* C20: the merge of a stage executed after the Planner leaves the filter
\* expression and the selected stage set as they were, so the filter the
\* Planner's merge produced is the one the Synthesizer receives.
C20_PlannerFieldsStable ==
    ev.node \in {"agent1", "agent2", "agent3", "synthesizer"}
        => /\ PlannerFields \subseteq DOMAIN prev
           /\ \A k \in PlannerFields : k \in DOMAIN st /\ st[k] = prev[k]

C20_Witness ==
    /\ ev.node = "agent3" /\ ~ev.raised /\ pc = "synthesizer"
    /\ "parsed_filters" \in ev.wrote
    /\ st["parsed_filters"] = "region = X"
    /\ st["news"] # <<>>

\* C21: after the Planner's merge, whatever the planner responded, the selected
\* stage set is a non-empty subset of the fixed ids {1,2,3}.
C21_SelectedSetWithinIds ==
    (ev.node = "orchestrator" /\ ~ev.raised)
        => /\ st["agents_to_call"] # {}
           /\ st["agents_to_call"] \subseteq StageIds

\* The (category, entity) pairs of the records whose category is neither blank
\* nor a placeholder value and whose entity is not blank.
ExpectedPairs(deals) ==
    {<<Industry(d), Customer(d)>> :
        d \in {x \in Range(deals) : /\ Strip(x.customer_industry) # ""
                                   /\ Strip(x.customer_industry) \notin Placeholders
                                   /\ Customer(x) # ""}}

\* C22: when the Augmentation stage has its client, it issues one lookup and
\* emits one entry per distinct (category, entity) pair of the retrieved
\* records, and a record with a blank or placeholder category or a blank entity
\* contributes none.
C22_OneEntryPerPair ==
    (ev.node = "agent3" /\ "lookups" \in DOMAIN ev.env)
        => LET expected == ExpectedPairs(prev["retrieved_deals"])
               base == Len(prev["news"])
               added == [i \in 1..(Len(st["news"]) - base) |-> st["news"][base + i]]
           IN /\ Len(ev.env.lookups) = Cardinality(expected)
              /\ Len(added) = Cardinality(expected)
              /\ {<<added[i].industry, added[i].customer>> : i \in 1..Len(added)} = expected

\* C23: after the Planner's merge in a turn started by main(), the conversation
\* log is the log main() passed in followed by the Planner's decision summary,
\* and the turn's user request occurs in it exactly once.
C23_LogExtendedBySummary ==
    (ev.node = "orchestrator" /\ ~ev.raised)
        => /\ st["history"]
                = Append(prev["history"], SystemEntry(st["parsed_filters"], st["agents_to_call"]))
           /\ Count(st["history"], UserEntry(st["user_query"])) = 1

\* C24: when the generated request is no SELECT, the request executed is the
\* fallback: it selects exactly the base fields, from the deals table, and has
\* the active filter as its predicate exactly when that filter is non-empty.
C24_FallbackBaseFieldsOnly ==
    (ev.node = "agent1" /\ ~ev.raised /\ "sql" \in DOMAIN ev.env /\ ev.env.sql = "other")
        => LET q == st["sql_query"]
               filter == Get(prev, "parsed_filters", "")
           IN /\ q.by = "fallback"
              /\ q.table = "OPEN_DEALS_TABLE"
              /\ "opportunity_number" \in Range(q.cols)
              /\ q.has_where = (filter # "")
              /\ q.has_where => q.where = filter
              /\ q.cols = base_cols

\* The list without its last element.
Front(q) == SubSeq(q, 1, Len(q) - 1)

\* C27: when a turn has aborted inside the workflow invocation, the
\* conversation log in session storage is the log as it was before the turn
\* began, that is main()'s list without the user entry the turn appended.
C27_AbortLeavesStoredLog ==
    pc = "aborted" => Get(session, "history", <<>>) = Front(history)

\* Node a executed before node b in this turn.
RanBefore(a, b) == \E i, j \in 1..Len(ran) : i < j /\ ran[i] = a /\ ran[j] = b

InFlight == {c \in 1..Len(calls) : calls[c].at = "awaiting"}

\* C25: two calls of main() of one session that are in flight at the same time
\* hold different list objects, and the user entry one of them appended is not
\* in the conversation log the other holds.
C25_OverlappingTurnsIsolated ==
    \A a, b \in InFlight :
        a # b => /\ calls[a].history # calls[b].history
                 /\ UserEntry(Query(a)) \notin Range(lists[calls[b].history])

====
